---- MODULE Spec2Model ----
(***************************************************************************)
(* Restaurant menu summarizer: the SQLite-backed TTL cache (CacheService), *)
(* the two-strategy scraper (ScraperService) and the orchestrator          *)
(* (MenuService.summarizeMenu).                                            *)
(*                                                                         *)
(* Instants are counted in days from a local midnight and a date is the    *)
(* number of its day: the date d begins at instant d and the local         *)
(* midnight that follows it is the instant d + 1.  The sqlite3 connection  *)
(* runs in its default (parallel) execution mode: statements that were     *)
(* issued and not yet executed may execute in any order, each atomically.  *)
(***************************************************************************)
EXTENDS Integers, Sequences, FiniteSets, TLC

VARIABLES
    now,        \* Date.now()
    schema,     \* TRUE once the menu_cache table exists in the database file
    rows,       \* the rows of table menu_cache
    atOpen,     \* history: the rows the file held when it was last opened again
    stmts,      \* statements issued to the connection and not yet executed
    pc,         \* per request slot: where its call stands
    key,        \* per request slot: <<url, date>> of the call
    sel,        \* per request slot: what the SELECT handed to get's callback
    cached,     \* per request slot: what cache.get resolved to
    pageContent,\* per request slot: the text of the scrape
    menuImages, \* per request slot: the menu images of the scrape
    result,     \* per request slot: the menu summarizeMenu returns
    today,      \* per request slot: the local date of a call made without a date
    target,     \* per request slot: the URL handed to the latest fetcher call
    fail,       \* per request slot: the error caught or thrown
    stat,       \* per request slot: how the static attempt ended
    rend,       \* per request slot: how the latest rendered attempt ended
    nStatic,    \* per request slot: calls of fetchPageContent
    nRendered,  \* per request slot: calls of fetchPageContentWithPuppeteer
    nExtract,   \* per request slot: calls of llm.extractMenu
    nSet,       \* per request slot: calls of cache.set
    expect,     \* history: what the call is owed by the operations before it
    hist,       \* history: the sets on one key that were the last calls made
    calls,      \* history: number of calls made so far
    fpc,        \* per fetcher call: where the call stands
    browser,    \* per fetcher call: the browser instance of the call
    cookieIx,   \* per fetcher call: index of the cookie selector being tried
    slipped,    \* per fetcher call: the guarded steps that raised and were passed over
    gets,       \* per fetcher call: the URLs axios.get was called with
    reply,      \* per fetcher call: history, what axios.get resolved or rejected with
    fres,       \* per fetcher call: what the call returned or raised
    doc,        \* the markup handed to extractTextContent
    out,        \* the text extractTextContent returned for it
    arg,        \* the arguments handed to a function of the scraper
    ret,        \* what the function returned for them
    body,       \* per request slot: history, the body of the last request
    status      \* per request slot: the HTTP status of the last response

pipe == <<pageContent, menuImages, result, today, target, fail, stat, rend, nStatic, nRendered, nExtract, nSet>>
io == <<fpc, browser, cookieIx, slipped, gets, reply, fres, doc, out, arg, ret>>
api == <<body, status>>
vars == <<now, schema, rows, atOpen, stmts, pc, key, sel, cached, pipe, expect, hist, calls, io, api>>

(* ------------------------------ bounds -------------------------------- *)
MaxTime == 2
MaxCalls == 2
MaxInFlight == 1
MaxRacing == 2
MaxLen == 3

Procs == {1, 2}
Dates == {0, 1}
Url(b, h) == [base |-> b, hash |-> h]
Urls == {Url("a", ""), Url("a", "f")}
Keys == Urls \X Dates

None == <<>>
Some(v) == <<v>>

(* ------------------------------ payloads ------------------------------ *)
Undefined == "undefined"
ItemKeys == <<"category", "name", "price", "weight">>
MenuKeys == <<"restaurant_name", "date", "day_of_week", "menu_items",
              "daily_menu", "source_url">>

Item(c, n, p, w) == [category |-> c, name |-> n, price |-> p, weight |-> w]
Menu(r, d, w, items, daily, u) ==
    [restaurant_name |-> r, date |-> d, day_of_week |-> w,
     menu_items |-> items, daily_menu |-> daily, source_url |-> u]

Range(s) == {s[i] : i \in 1..Len(s)}

(* JSON.stringify: an object becomes the sequence of its <<name, text>>    *)
(* members, a member whose value is undefined is left out, a boolean       *)
(* becomes the word true or false.                                         *)
OptionalKeys == {"weight"}
StringifyItem(it) ==
    LET has(k) == k \in OptionalKeys => it[k] # Undefined
        keep == SelectSeq(ItemKeys, has)
    IN [i \in 1..Len(keep) |-> <<keep[i], it[keep[i]]>>]

JsonStringify(m) ==
    << <<"restaurant_name", m.restaurant_name>>,
       <<"date", m.date>>,
       <<"day_of_week", m.day_of_week>>,
       <<"menu_items", [i \in 1..Len(m.menu_items) |-> StringifyItem(m.menu_items[i])]>>,
       <<"daily_menu", IF m.daily_menu THEN "true" ELSE "false">>,
       <<"source_url", m.source_url>> >>

(* JSON.parse: each member read back by name; reading a member the text    *)
(* does not hold gives undefined.                                          *)
Member(js, k) ==
    IF \E i \in 1..Len(js) : js[i][1] = k
    THEN (CHOOSE v \in {js[i][2] : i \in {j \in 1..Len(js) : js[j][1] = k}} : TRUE)
    ELSE Undefined

ParseItem(js) == [k \in Range(ItemKeys) |-> Member(js, k)]

JsonParse(js) ==
    LET items == Member(js, "menu_items")
    IN [restaurant_name |-> Member(js, "restaurant_name"),
        date |-> Member(js, "date"),
        day_of_week |-> Member(js, "day_of_week"),
        menu_items |-> [i \in 1..Len(items) |-> ParseItem(items[i])],
        daily_menu |-> (Member(js, "daily_menu") = "true"),
        source_url |-> Member(js, "source_url")]

(* The menus a caller of the cache stores. *)
Menus ==
    {Menu("Restaurant 1", 0, "streda", <<>>, TRUE, Url("a", "")),
     Menu("Restaurant 2", 0, "streda",
          <<Item("polevka", "Test Soup", 45, Undefined)>>, TRUE, Url("a", ""))}

(* ------------------------------ strings ------------------------------- *)
(* A string is the sequence of its characters; a letter that carries a     *)
(* diacritic is written with the mark after it (c^, i', e').              *)
Lower(c) ==
    CASE c = "S" -> "s" [] c = "O" -> "o" [] c = "U" -> "u" [] c = "P" -> "p"
      [] c = "K" -> "k" [] c = "C" -> "c" [] c = "M" -> "m" [] c = "E" -> "e"
      [] c = "N" -> "n" [] c = "H" -> "h" [] c = "I" -> "i" [] c = "C^" -> "c^"
      [] OTHER -> c

ToLowerCase(s) == [i \in 1..Len(s) |-> Lower(s[i])]

Includes(s, sub) ==
    \E i \in 0..(Len(s) - Len(sub)) : SubSeq(s, i + 1, i + Len(sub)) = sub

StartsWith(s, pre) == Len(s) >= Len(pre) /\ SubSeq(s, 1, Len(pre)) = pre

IsSpace(c) == c \in {" ", "\n", "\t"}
IsDigit(c) == c \in {"0", "1", "2", "3", "4", "5", "6", "7", "8", "9"}

RECURSIVE Concat(_)
Concat(ss) == IF ss = <<>> THEN <<>> ELSE Head(ss) \o Concat(Tail(ss))

(* replace(/\s+/g, ' '): of every run of whitespace the first character  *)
(* stays, as a space                                                      *)
CollapseWhitespace(s) ==
    LET first(i) == ~(IsSpace(s[i]) /\ i > 1 /\ IsSpace(s[i - 1]))
        ix == SelectSeq([i \in 1..Len(s) |-> i], first)
    IN [k \in 1..Len(ix) |-> IF IsSpace(s[ix[k]]) THEN " " ELSE s[ix[k]]]

(* replace(/\n\s*\n/g, '\n'): in a run of whitespace with two newlines or *)
(* more, what follows the first newline up to the last one is dropped     *)
CollapseBlankLines(s) ==
    LET white(a, b) == \A m \in a..b : IsSpace(s[m])
        dropped(i) ==
            /\ IsSpace(s[i])
            /\ \E j \in 1..(i - 1) : s[j] = "\n" /\ white(j, i)
            /\ \E k \in i..Len(s) : s[k] = "\n" /\ white(i, k)
        kept(i) == ~dropped(i)
        ix == SelectSeq([i \in 1..Len(s) |-> i], kept)
    IN [k \in 1..Len(ix) |-> s[ix[k]]]

Trim(s) ==
    LET solid == {i \in 1..Len(s) : ~IsSpace(s[i])}
    IN IF solid = {} THEN <<>>
       ELSE SubSeq(s, CHOOSE i \in solid : \A j \in solid : i <= j,
                      CHOOSE i \in solid : \A j \in solid : j <= i)

(* ------------------------------ markup -------------------------------- *)
(* A document is the sequence of its elements in document order; an        *)
(* attribute that is absent is the empty string.                           *)
Element(tag, id, class, text) ==
    [tag |-> tag, id |-> id, class |-> class, text |-> text,
     src |-> <<>>, dataSrc |-> <<>>, alt |-> <<>>, title |-> <<>>]
Image(src, dataSrc, alt, title) ==
    [tag |-> "img", id |-> <<>>, class |-> <<>>, text |-> <<>>,
     src |-> src, dataSrc |-> dataSrc, alt |-> alt, title |-> title]

SectionMinLength == 100
SectionMaxLength == 10000

Matches(e, selector) ==
    CASE selector[1] = "id*" -> Includes(e.id, selector[2])
      [] selector[1] = "class*" -> Includes(e.class, selector[2])
      [] selector[1] = "tag" -> e.tag = selector[2]
      [] selector[1] = "class" -> e.class = selector[2]
      [] selector[1] = "id" -> e.id = selector[2]

MenuSelectors ==
    << <<"id*", <<"m", "e", "n", "u">> >>,
       <<"class*", <<"m", "e", "n", "u">> >>,
       <<"id*", <<"d", "e", "n", "n", "i">> >>,
       <<"class*", <<"d", "e", "n", "n", "i">> >>,
       <<"id*", <<"d", "e", "n", "n", "i'">> >>,
       <<"class*", <<"d", "e", "n", "n", "i'">> >>,
       <<"tag", "section">>,
       <<"tag", "article">>,
       <<"class", <<"c", "o", "n", "t", "e", "n", "t">> >>,
       <<"id", <<"c", "o", "n", "t", "e", "n", "t">> >> >>

TextOf(elements) == Concat([i \in 1..Len(elements) |-> elements[i].text])

RemovedScriptsOnly == {"script"}

(* $('script, style, noscript').remove() *)
Removed == {"script", "style", "noscript"}

(* extractTextContent *)
ExtractTextContent(html) ==
    LET isContent(e) == e.tag \notin Removed
        dom == SelectSeq(html, isContent)
        section(i) ==
            LET matches(e) == Matches(e, MenuSelectors[i])
                t == TextOf(SelectSeq(dom, matches))
            IN IF Len(t) > SectionMinLength /\ Len(t) < SectionMaxLength
               THEN t \o <<"\n", "\n">>
               ELSE <<>>
        menuText == Concat([i \in 1..Len(MenuSelectors) |-> section(i)])
        bodyText == TextOf(dom)
        combinedText == menuText \o <<"\n">> \o bodyText
    IN Trim(CollapseBlankLines(CollapseWhitespace(combinedText)))

MenuKeywords ==
    << <<"m", "e", "n", "u">>,
       <<"p", "o", "l", "e", "d", "n", "i'">>,
       <<"n", "a", "b", "i'", "d", "k", "a">>,
       <<"j", "i'", "d", "l", "o">>,
       <<"l", "i", "s", "t", "e", "k">>,
       <<"d", "e", "n", "n", "i'">> >>

IsMenuImage(e) ==
    LET src == IF e.src # <<>> THEN e.src ELSE e.dataSrc
        lowerAlt == ToLowerCase(e.alt)
        lowerTitle == ToLowerCase(e.title)
        lowerSrc == ToLowerCase(src)
    IN \/ \E i \in 1..Len(MenuKeywords) :
             \/ Includes(lowerAlt, MenuKeywords[i])
             \/ Includes(lowerTitle, MenuKeywords[i])
             \/ Includes(lowerSrc, MenuKeywords[i])
       \/ Includes(lowerSrc, <<"m", "e", "n", "u">>)
       \/ Includes(lowerSrc, <<"p", "o", "l", "e", "d", "n", "i">>)

(* new URL(src, baseUrl) raises for a reference with an empty host *)
Unresolvable(src) == src = <<"/", "/">>

AbsoluteUrl(src, baseUrl) ==
    IF StartsWith(src, <<"h", "t", "t", "p">>)
    THEN [base |-> <<>>, ref |-> src]
    ELSE [base |-> baseUrl.base, ref |-> src]

(* findMenuImages: <<"ok", urls>>, or <<"throw">> when a URL cannot be built *)
FindMenuImages(html, baseUrl) ==
    LET srcOf(e) == IF e.src # <<>> THEN e.src ELSE e.dataSrc
        picked(e) == e.tag = "img" /\ srcOf(e) # <<>> /\ IsMenuImage(e)
        imgs == SelectSeq(html, picked)
    IN IF \E i \in 1..Len(imgs) :
              ~StartsWith(srcOf(imgs[i]), <<"h", "t", "t", "p">>) /\ Unresolvable(srcOf(imgs[i]))
       THEN <<"throw">>
       ELSE <<"ok", [i \in 1..Len(imgs) |-> AbsoluteUrl(srcOf(imgs[i]), baseUrl)]>>

(* text.match(/\d+\s*(kc^|kc|,-)/i) !== null *)
MatchesPrice(text) ==
    LET t == ToLowerCase(text)
    IN \E i \in 1..Len(t), j \in 1..Len(t) :
          /\ i < j
          /\ IsDigit(t[i])
          /\ \A k \in (i + 1)..(j - 1) : IsSpace(t[k])
          /\ \/ StartsWith(SubSeq(t, j, Len(t)), <<"k", "c^">>)
             \/ StartsWith(SubSeq(t, j, Len(t)), <<"k", "c">>)
             \/ StartsWith(SubSeq(t, j, Len(t)), <<",", "-">>)

HasMenuContentOrMention(text, images) ==
    \/ Includes(ToLowerCase(text), <<"s", "o", "u", "p">>)
    \/ Includes(ToLowerCase(text), <<"m", "e", "n", "u">>)
    \/ Len(images) > 0

(* hasMenuContent *)
HasMenuContent(text, images) ==
    \/ Includes(ToLowerCase(text), <<"p", "o", "l", "e'", "v", "k", "a">>)
    \/ Includes(ToLowerCase(text), <<"s", "o", "u", "p">>)
    \/ Includes(ToLowerCase(text), <<"c", "e", "n", "a">>)
    \/ Includes(ToLowerCase(text), <<"k", "c^">>)
    \/ MatchesPrice(text)
    \/ Len(images) > 0

(* ------------------------------ the store ----------------------------- *)
Row(u, d, data, created, expires) ==
    [url |-> u, date |-> d, data |-> data, created_at |-> created, expires_at |-> expires]

RowsOf(rs, u, d) == {r \in rs : r.url = u /\ r.date = d}

(* the time value of new Date(text) for a text that names no day *)
NaN == 0 - 1

GetExpirationTimestampFromNow(d) == now + 1

(* getExpirationTimestamp: local midnight that starts the day after the     *)
(* date; NaN for a date that names no day                                  *)
GetExpirationTimestamp(d) == IF d = NaN THEN NaN ELSE d + 1

SelectStmt(p, u, d) == <<"SELECT", p, u, d>>
InsertStmt(u, d, data, created, expires) == <<"INSERT", u, d, data, created, expires>>
DeleteStmt(u, d) == <<"DELETE", u, d>>
SweepStmt(t) == <<"SWEEP", t>>
CreateStmt == <<"CREATE">>
Kind(s) == s[1]

InsertOrReplaceByUrl(rs, u, d, data, created, expires) ==
    {r \in rs : r.url # u} \cup {Row(u, d, data, created, expires)}

InsertKeepingOld(rs, u, d, data, created, expires) ==
    rs \cup {Row(u, d, data, created, expires)}

(* INSERT OR REPLACE under UNIQUE(url, date) *)
InsertOrReplace(rs, u, d, data, created, expires) ==
    (rs \ RowsOf(rs, u, d)) \cup {Row(u, d, data, created, expires)}

(* DELETE FROM menu_cache WHERE url = ? AND date = ? *)
DeleteWhere(rs, u, d) == rs \ RowsOf(rs, u, d)

DeleteExpiringSoon(rs, t) == {r \in rs : r.expires_at > t + 1}

(* DELETE FROM menu_cache WHERE expires_at < ? *)
DeleteExpired(rs, t) == {r \in rs : ~(r.expires_at < t)}

IsExpiredStrictly(t, expires) == t > expires
IsExpiredAlways(t, expires) == TRUE
IsExpiredNever(t, expires) == FALSE

(* get's expiry test on the row it read *)
IsExpired(t, expires) == t >= expires

(* what get's callback resolves to, given what the SELECT handed it *)
GetResolves(sr, t) ==
    IF sr[1] = "row" /\ ~IsExpired(t, sr[3]) THEN Some(JsonParse(sr[2])) ELSE None

Idle ==
    /\ now = 1
    /\ schema = FALSE
    /\ rows = {}
    /\ atOpen = {}
    /\ stmts = {CreateStmt, SweepStmt(1)}
    /\ pc = [p \in Procs |-> "idle"]
    /\ key = [p \in Procs |-> <<Url("a", ""), 0>>]
    /\ sel = [p \in Procs |-> None]
    /\ cached = [p \in Procs |-> None]
    /\ pageContent = [p \in Procs |-> <<>>]
    /\ menuImages = [p \in Procs |-> <<>>]
    /\ result = [p \in Procs |-> None]
    /\ today = [p \in Procs |-> None]
    /\ target = [p \in Procs |-> None]
    /\ fail = [p \in Procs |-> ""]
    /\ stat = [p \in Procs |-> ""]
    /\ rend = [p \in Procs |-> ""]
    /\ nStatic = [p \in Procs |-> 0]
    /\ nRendered = [p \in Procs |-> 0]
    /\ nExtract = [p \in Procs |-> 0]
    /\ nSet = [p \in Procs |-> 0]
    /\ expect = [p \in Procs |-> None]
    /\ hist = <<>>
    /\ calls = 0
    /\ fpc = [p \in Procs |-> "idle"]
    /\ browser = [p \in Procs |-> "undefined"]
    /\ cookieIx = [p \in Procs |-> 0]
    /\ slipped = [p \in Procs |-> {}]
    /\ gets = [p \in Procs |-> <<>>]
    /\ reply = [p \in Procs |-> None]
    /\ fres = [p \in Procs |-> None]
    /\ body = [p \in Procs |-> None]
    /\ status = [p \in Procs |-> 0]

Init == Idle /\ doc = <<>> /\ out = None /\ arg = <<>> /\ ret = None

(* ------------------------- history bookkeeping ------------------------ *)
KeepLast(h, k, m) ==
    IF h # <<>> /\ h[Len(h)].key = k THEN <<h[Len(h)], [key |-> k, data |-> m]>>
    ELSE <<[key |-> k, data |-> m]>>
Owed(k) ==
    IF hist # <<>> /\ hist[1].key = k THEN Some(hist[Len(hist)].data) ELSE None
WaitingOn(p, k) == pc[p] \in {"cacheGet", "cacheCb"} /\ key[p] = k

(* ------------------------ CacheService: calls ------------------------- *)
(* get(url, date): issues the SELECT and waits for its callback *)
FreeSlot(p) == pc[p] = "idle" /\ \A q \in Procs : pc[q] = "idle" => p <= q

CacheGet(p, u, d) ==
    /\ FreeSlot(p)
    /\ calls < MaxCalls
    /\ calls' = calls + 1
    /\ stmts' = stmts \cup {SelectStmt(p, u, d)}
    /\ pc' = [pc EXCEPT ![p] = "cacheGet"]
    /\ key' = [key EXCEPT ![p] = <<u, d>>]
    /\ expect' = [expect EXCEPT ![p] = Owed(<<u, d>>)]
    /\ hist' = <<>>
    /\ UNCHANGED <<io, api, atOpen, now, schema, rows, sel, cached, pipe>>

SetStmtOfRolling(u, d, m) == InsertStmt(u, d, JsonStringify(m), now, now + 1)

(* set(url, date, data): issues the INSERT OR REPLACE and returns *)
SetStmtOf(u, d, m) ==
    InsertStmt(u, d, JsonStringify(m), now, GetExpirationTimestamp(d))

CacheSet(u, d, m) ==
    /\ calls < MaxCalls
    /\ calls' = calls + 1
    /\ stmts' = stmts \cup {SetStmtOf(u, d, m)}
    /\ hist' = IF schema THEN KeepLast(hist, <<u, d>>, m) ELSE <<>>
    /\ expect' = [p \in Procs |-> IF WaitingOn(p, <<u, d>>) THEN None ELSE expect[p]]
    /\ UNCHANGED <<io, api, atOpen, now, schema, rows, pc, key, sel, cached, pipe>>

(* cleanupExpiredEntries(): issues the sweep with the current time *)
CleanupExpiredEntries ==
    /\ calls < MaxCalls
    /\ calls' = calls + 1
    /\ stmts' = stmts \cup {SweepStmt(now)}
    /\ hist' = <<>>
    /\ expect' = [p \in Procs |-> None]
    /\ UNCHANGED <<io, api, atOpen, now, schema, rows, pc, key, sel, cached, pipe>>

(* ---------------------- the connection executes ----------------------- *)
ExecCreateFresh ==
    /\ CreateStmt \in stmts
    /\ stmts' = stmts \ {CreateStmt}
    /\ schema' = TRUE
    /\ rows' = {}
    /\ UNCHANGED <<io, api, atOpen, now, pc, key, sel, cached, pipe, expect, hist, calls>>

(* CREATE TABLE IF NOT EXISTS *)
ExecCreate ==
    /\ CreateStmt \in stmts
    /\ stmts' = stmts \ {CreateStmt}
    /\ schema' = TRUE
    /\ UNCHANGED <<io, api, atOpen, now, rows, pc, key, sel, cached, pipe, expect, hist, calls>>

SelectFrom(sch, rs, u, d) ==
    IF ~sch THEN <<"err">>
    ELSE IF RowsOf(rs, u, d) = {} THEN <<"none">>
    ELSE LET r == CHOOSE r \in RowsOf(rs, u, d) : TRUE
         IN <<"row", r.data, r.expires_at>>

SelectResult(u, d) == SelectFrom(schema, rows, u, d)

ExecSelect(p) ==
    /\ pc[p] = "cacheGet"
    /\ SelectStmt(p, key[p][1], key[p][2]) \in stmts
    /\ stmts' = stmts \ {SelectStmt(p, key[p][1], key[p][2])}
    /\ sel' = [sel EXCEPT ![p] = SelectResult(key[p][1], key[p][2])]
    /\ pc' = [pc EXCEPT ![p] = "cacheCb"]
    /\ UNCHANGED <<io, api, atOpen, now, schema, rows, key, cached, pipe, expect, hist, calls>>

(* expires_at INTEGER NOT NULL: a NaN is bound as NULL *)
NotNull(v) == v # NaN

ExecInsert ==
    \E s \in stmts :
        /\ Kind(s) = "INSERT"
        /\ stmts' = stmts \ {s}
        /\ rows' = IF schema /\ NotNull(s[6])
                   THEN InsertOrReplace(rows, s[2], s[3], s[4], s[5], s[6])
                   ELSE rows
        /\ UNCHANGED <<io, api, atOpen, now, schema, pc, key, sel, cached, pipe, expect, hist, calls>>

ExecDelete ==
    \E s \in stmts :
        /\ Kind(s) = "DELETE"
        /\ stmts' = stmts \ {s}
        /\ rows' = IF schema THEN DeleteWhere(rows, s[2], s[3]) ELSE rows
        /\ UNCHANGED <<io, api, atOpen, now, schema, pc, key, sel, cached, pipe, expect, hist, calls>>

ExecSweep ==
    \E s \in stmts :
        /\ Kind(s) = "SWEEP"
        /\ stmts' = stmts \ {s}
        /\ rows' = IF schema THEN DeleteExpired(rows, s[2]) ELSE rows
        /\ UNCHANGED <<io, api, atOpen, now, schema, pc, key, sel, cached, pipe, expect, hist, calls>>

(* --------------------- CacheService: get's callback ------------------- *)
AfterSelectRejects(sr) == IF sr[1] = "err" THEN "failed" ELSE "gotCache"
(* every branch of the callback resolves the promise, the error branch too *)
AfterSelect(sr) == "gotCache"

GetCallback(p) ==
    /\ pc[p] = "cacheCb"
    /\ pc' = [pc EXCEPT ![p] = AfterSelect(sel[p])]
    /\ IF sel[p][1] = "row" /\ IsExpired(now, sel[p][3])
       THEN stmts' = stmts \cup {DeleteStmt(key[p][1], key[p][2])}
       ELSE stmts' = stmts
    /\ cached' = [cached EXCEPT ![p] = GetResolves(sel[p], now)]
    /\ UNCHANGED <<io, api, atOpen, now, schema, rows, key, sel, pipe, expect, hist, calls>>

(* the caller of get takes the result *)
GetReturn(p) ==
    /\ pc[p] = "gotCache"
    /\ pc' = [pc EXCEPT ![p] = "idle"]
    /\ sel' = [sel EXCEPT ![p] = None]
    /\ cached' = [cached EXCEPT ![p] = None]
    /\ expect' = [expect EXCEPT ![p] = None]
    /\ UNCHANGED <<io, api, atOpen, now, schema, rows, stmts, key, pipe, hist, calls>>

Tick ==
    /\ now < MaxTime
    /\ now' = now + 1
    /\ UNCHANGED <<io, api, atOpen, schema, rows, stmts, pc, key, sel, cached, pipe, expect, hist, calls>>

(* close(), then new CacheService(dbPath) on the same file: close lets the  *)
(* statements still pending finish; the constructor issues the schema and  *)
(* the sweep again                                                         *)
Restart ==
    /\ stmts = {}
    /\ \A p \in Procs : pc[p] = "idle"
    /\ atOpen' = rows
    /\ stmts' = {CreateStmt, SweepStmt(now)}
    /\ UNCHANGED <<io, api, now, schema, rows, pc, key, sel, cached, pipe, expect, hist, calls>>

DbStep ==
    \/ ExecCreate
    \/ \E p \in Procs : ExecSelect(p)
    \/ ExecInsert
    \/ ExecDelete
    \/ ExecSweep

NextCache ==
    \/ \E p \in Procs, u \in Urls, d \in Dates : CacheGet(p, u, d)
    \/ \E u \in Urls, d \in Dates, m \in Menus : CacheSet(u, d, m)
    \/ CleanupExpiredEntries
    \/ DbStep
    \/ \E p \in Procs : GetCallback(p)
    \/ \E p \in Procs : GetReturn(p)
    \/ Restart
    \/ Tick

SpecCache == Init /\ [][NextCache]_vars

(* ========================= the cache: claims =========================== *)
Executed(s) == s \in stmts /\ stmts' = stmts \ {s}

(* C1: executing the INSERT of a set, or the DELETE issued by an expired    *)
(* get, leaves every other key's row, and so what get returns for it, as   *)
(* it was.                                                                 *)
C1_OtherKeysUntouched ==
    [][\A s \in stmts :
          (Kind(s) \in {"INSERT", "DELETE"} /\ Executed(s)) =>
              \A k \in Keys :
                  k # <<s[2], s[3]>> =>
                      /\ RowsOf(rows', k[1], k[2]) = RowsOf(rows, k[1], k[2])
                      /\ GetResolves(SelectFrom(schema', rows', k[1], k[2]), now')
                           = GetResolves(SelectFrom(schema, rows, k[1], k[2]), now)]_vars

(* two rows that differ in the date alone, and two that differ in the url alone *)
C1_Witness ==
    \/ \E r1, r2 \in rows : r1.url = r2.url /\ r1.date # r2.date
    \/ \E r1, r2 \in rows : r1.url # r2.url /\ r1.date = r2.date

(* C2: a get issued right after set(key, payload) resolves, while the row   *)
(* is unexpired, to that payload.                                          *)
C2_SetThenGet ==
    \A p \in Procs :
        (pc[p] = "gotCache" /\ expect[p] # None
            /\ now < GetExpirationTimestamp(key[p][2]))
        => cached[p] = expect[p]

(* C3: get's callback never resolves to the payload of a row whose          *)
(* expires_at is at or before the current time.                            *)
C3_NoStaleGet ==
    [][\A p \in Procs :
          (pc[p] = "cacheCb" /\ pc'[p] = "gotCache" /\ cached'[p] # None)
          => (sel[p][1] = "row" /\ sel[p][3] > now)]_vars

(* a get read a row written for a date whose midnight had passed, and resolved to absent *)
C3_Witness ==
    \E p \in Procs :
        /\ pc[p] = "gotCache"
        /\ sel[p][1] = "row"
        /\ sel[p][3] <= now
        /\ cached[p] = None
        /\ DeleteStmt(key[p][1], key[p][2]) \in stmts

(* C4: at most one row per key, and once two sets on a key have both been   *)
(* executed a get of the key resolves to the payload of the second one.    *)
OneRowPerKey == \A k \in Keys : Cardinality(RowsOf(rows, k[1], k[2])) <= 1

C4_OneRowSecondSetWins ==
    /\ OneRowPerKey
    /\ (Len(hist) = 2 /\ stmts = {} /\ now < GetExpirationTimestamp(hist[2].key[2]))
       => GetResolves(SelectResult(hist[2].key[1], hist[2].key[2]), now)
            = Some(hist[2].data)

(* ========================= the request pipeline ======================== *)
(* The documents a server answers with. *)
EmptyPage == <<>>
PlainPage ==
    <<Element("script", <<>>, <<>>, <<"c", "e", "n", "a">>),
      Element("p", <<>>, <<>>, <<" ", "h", "i", "\n">>)>>
SoupPage == <<Element("div", <<"m", "e", "n", "u">>, <<>>, <<"S", "o", "u", "p">>)>>
PricePage == <<Element("p", <<>>, <<>>, <<"7", " ", ",", "-">>)>>
ImagePage == <<Image(<<"/", "m">>, <<>>, <<"M", "e", "n", "u">>, <<>>)>>
BadImagePage ==
    <<Element("p", <<>>, <<>>, <<"h", "i">>),
      Image(<<>>, <<"/", "/">>, <<>>, <<"m", "e", "n", "u">>)>>
BlankPage == <<Element("p", <<>>, <<>>, <<" ", "\n">>)>>
StaticPages == {PlainPage, SoupPage, PricePage, ImagePage, BadImagePage}
RenderedPages == {EmptyPage, BlankPage, PlainPage, BadImagePage}

(* fetchPageContent: the page, or one of the errors it raises *)
FetchErrors == {"timeout", "http", "network", "other"}
StaticOutcomes ==
    {<<"ok", h>> : h \in StaticPages} \cup {<<"error", e>> : e \in FetchErrors}
(* fetchPageContentWithPuppeteer: the rendered page, or its error *)
RenderedOutcomes == {<<"ok", h>> : h \in RenderedPages} \cup {<<"error", "puppeteer">>}

(* menuData, the JSON the model answers with (its menu_items after         *)
(* validateAndNormalizeMenuItems); the date, weekday and URL it names are  *)
(* the model's own                                                         *)
LlmAnswers ==
    {[restaurant_name |-> "Restaurant 1", menu_items |-> <<>>,
      date |-> 5, day_of_week |-> "pondeli", source_url |-> Url("z", "")],
     [restaurant_name |-> "Restaurant 2",
      menu_items |-> <<Item("polevka", "Test Soup", 45, Undefined)>>,
      date |-> 1, day_of_week |-> "patek", source_url |-> Url("a", "f")]}
LlmOutcomes == {<<"ok", a>> : a \in LlmAnswers} \cup {<<"error">>}

Days == <<"nedele", "pondeli", "utery", "streda", "ctvrtek", "patek", "sobota">>
(* getDayOfWeek; date 0 is a Wednesday *)
GetDayOfWeek(d) == IF d = NaN THEN Undefined ELSE Days[((d + 3) % 7) + 1]

(* removeHashFromUrl: the URL without its fragment *)
RemoveHashFromUrl(u) == Url(u.base, "")

(* extractTextContent followed by findMenuImages, as the scraper calls them *)
ScrapeOf(html, url) ==
    LET t == ExtractTextContent(html)
        imgs == FindMenuImages(html, url)
    IN IF imgs[1] = "throw" THEN <<"throw">> ELSE <<"ok", t, imgs[2]>>

(* the same, worked out once for each page a server answers with *)
Scrapes == [h \in StaticPages \cup RenderedPages, u \in Urls |-> ScrapeOf(h, u)]

Extracted(html, url) == Scrapes[html, url]

(* summarizeMenu(url, date): up to the awaited cache.get *)
InFlight == Cardinality({q \in Procs : pc[q] # "idle"})

Start(p, u, d, t) ==
    /\ FreeSlot(p)
    /\ calls < MaxCalls
    /\ calls' = calls + 1
    /\ stmts' = stmts \cup {SelectStmt(p, u, d)}
    /\ pc' = [pc EXCEPT ![p] = "cacheGet"]
    /\ key' = [key EXCEPT ![p] = <<u, d>>]
    /\ today' = [today EXCEPT ![p] = t]
    /\ expect' = [expect EXCEPT ![p] = Owed(<<u, d>>)]
    /\ UNCHANGED <<io, atOpen, now, schema, rows, sel, cached, pageContent, menuImages, result,
                   target, fail, stat, rend, nStatic, nRendered, nExtract, nSet, hist>>

Call(p, u, d, t) == InFlight < MaxInFlight /\ Start(p, u, d, t)

SummarizeMenu(p, u, d) == Call(p, u, d, None) /\ UNCHANGED api

(* getCurrentDate: the date part of new Date().toISOString(), which is the  *)
(* calendar date in UTC; h is the local hour of the day and off the hours  *)
(* local time is ahead of UTC                                              *)
Hours == {1, 12}
Offsets == {0, 2}
GetCurrentDate(t, h, off) == t + ((h - off) \div 24)

(* summarizeMenu(url) *)
SummarizeMenuToday(p, u) ==
    \E h \in Hours, off \in Offsets :
        /\ GetCurrentDate(now, h, off) \in Dates
        /\ Call(p, u, GetCurrentDate(now, h, off), Some(now))
        /\ UNCHANGED api

(* if (cached) return cached; otherwise on to the scraper *)
AfterCacheGetAlwaysMiss(c) == "static"
AfterCacheGet(c) == IF c # None THEN "done" ELSE "static"

CacheChecked(p) ==
    /\ pc[p] = "gotCache"
    /\ pc' = [pc EXCEPT ![p] = AfterCacheGet(cached[p])]
    /\ result' = [result EXCEPT ![p] = IF pc'[p] = "done" THEN cached[p] ELSE None]
    /\ UNCHANGED <<io, api, atOpen, now, schema, rows, stmts, key, sel, cached, today, pageContent, menuImages,
                   target, fail, stat, rend, nStatic, nRendered, nExtract, nSet,
                   expect, hist, calls>>

(* scrapeMenuPageWithImages returns { text, images } to summarizeMenu, which *)
(* rejects an empty text and otherwise calls the model                      *)
ScrapeReturnsUnchecked(p, t, imgs) ==
    /\ pc' = [pc EXCEPT ![p] = "llm"]
    /\ fail' = [fail EXCEPT ![p] = ""]
    /\ pageContent' = [pageContent EXCEPT ![p] = t]
    /\ menuImages' = [menuImages EXCEPT ![p] = imgs]

ScrapeReturnsImagesSuffice(p, t, imgs) ==
    IF Trim(t) = <<>> /\ imgs = <<>>
    THEN /\ pc' = [pc EXCEPT ![p] = "failed"]
         /\ fail' = [fail EXCEPT ![p] = "empty"]
         /\ UNCHANGED <<pageContent, menuImages>>
    ELSE /\ pc' = [pc EXCEPT ![p] = "llm"]
         /\ fail' = [fail EXCEPT ![p] = ""]
         /\ pageContent' = [pageContent EXCEPT ![p] = t]
         /\ menuImages' = [menuImages EXCEPT ![p] = imgs]

ScrapeReturns(p, t, imgs) ==
    IF Trim(t) = <<>>
    THEN /\ pc' = [pc EXCEPT ![p] = "failed"]
         /\ fail' = [fail EXCEPT ![p] = "empty"]
         /\ UNCHANGED <<pageContent, menuImages>>
    ELSE /\ pc' = [pc EXCEPT ![p] = "llm"]
         /\ fail' = [fail EXCEPT ![p] = ""]
         /\ pageContent' = [pageContent EXCEPT ![p] = t]
         /\ menuImages' = [menuImages EXCEPT ![p] = imgs]

(* the scraper's catch block takes over with the error that was raised *)
Caught(p, e) ==
    /\ pc' = [pc EXCEPT ![p] = "renderedCatch"]
    /\ fail' = [fail EXCEPT ![p] = e]
    /\ UNCHANGED <<pageContent, menuImages>>

(* scrapeMenuPageWithImages: the static attempt and the decision on it *)
AcceptStaticOnText(t, imgs) == HasMenuContent(t, <<>>)
AcceptStaticNever(t, imgs) == FALSE
AcceptStatic(t, imgs) == HasMenuContent(t, imgs)

AfterStaticErrorFails(p, e) ==
    /\ pc' = [pc EXCEPT ![p] = "failed"]
    /\ fail' = [fail EXCEPT ![p] = e]
    /\ UNCHANGED <<pageContent, menuImages>>
AfterStaticError(p, e) == Caught(p, e)

StaticFetch(p) ==
    /\ pc[p] = "static"
    /\ nStatic' = [nStatic EXCEPT ![p] = @ + 1]
    /\ target' = [target EXCEPT ![p] = Some(RemoveHashFromUrl(key[p][1]))]
    /\ \E o \in StaticOutcomes :
          IF o[1] = "error"
          THEN /\ stat' = [stat EXCEPT ![p] = "error"]
               /\ AfterStaticError(p, o[2])
          ELSE LET x == Extracted(o[2], key[p][1])
               IN IF x[1] = "throw"
                  THEN /\ stat' = [stat EXCEPT ![p] = "threw"]
                       /\ Caught(p, "other")
                  ELSE /\ stat' = [stat EXCEPT ![p] =
                              IF HasMenuContent(x[2], x[3]) THEN "menu" ELSE "plain"]
                       /\ IF AcceptStatic(x[2], x[3])
                          THEN ScrapeReturns(p, x[2], x[3])
                          ELSE /\ pc' = [pc EXCEPT ![p] = "renderedTry"]
                               /\ UNCHANGED <<fail, pageContent, menuImages>>
    /\ UNCHANGED <<io, api, atOpen, now, schema, rows, stmts, key, sel, cached, today, result, rend,
                   nRendered, nExtract, nSet, expect, hist, calls>>

(* the rendered attempt made inside the try block; what it raises is caught *)
(* by the catch block of the same function                                 *)
RenderedFetchTry(p) ==
    /\ pc[p] = "renderedTry"
    /\ nRendered' = [nRendered EXCEPT ![p] = @ + 1]
    /\ target' = [target EXCEPT ![p] = Some(key[p][1])]
    /\ \E o \in RenderedOutcomes :
          IF o[1] = "error"
          THEN /\ rend' = [rend EXCEPT ![p] = "error"]
               /\ Caught(p, o[2])
          ELSE LET x == Extracted(o[2], key[p][1])
               IN IF x[1] = "throw"
                  THEN /\ rend' = [rend EXCEPT ![p] = "threw"]
                       /\ Caught(p, "other")
                  ELSE /\ rend' = [rend EXCEPT ![p] = "ok"]
                       /\ ScrapeReturns(p, x[2], x[3])
    /\ UNCHANGED <<io, api, atOpen, now, schema, rows, stmts, key, sel, cached, today, result, stat,
                   nStatic, nExtract, nSet, expect, hist, calls>>

(* the rendered attempt made inside the catch block; what it raises is      *)
(* reported with the message of the error that led into the catch block    *)
RenderedFetchCatch(p) ==
    /\ pc[p] = "renderedCatch"
    /\ nRendered' = [nRendered EXCEPT ![p] = @ + 1]
    /\ target' = [target EXCEPT ![p] = Some(key[p][1])]
    /\ \E o \in RenderedOutcomes :
          IF o[1] = "error"
          THEN /\ rend' = [rend EXCEPT ![p] = "error"]
               /\ pc' = [pc EXCEPT ![p] = "failed"]
               /\ UNCHANGED <<pageContent, menuImages, fail>>
          ELSE LET x == Extracted(o[2], key[p][1])
               IN IF x[1] = "throw"
                  THEN /\ rend' = [rend EXCEPT ![p] = "threw"]
                       /\ pc' = [pc EXCEPT ![p] = "failed"]
                       /\ UNCHANGED <<pageContent, menuImages, fail>>
                  ELSE /\ rend' = [rend EXCEPT ![p] = "ok"]
                       /\ ScrapeReturns(p, x[2], x[3])
    /\ UNCHANGED <<io, api, atOpen, now, schema, rows, stmts, key, sel, cached, today, result, stat,
                   nStatic, nExtract, nSet, expect, hist, calls>>

(* extractMenu raised: summarizeMenu has no handler, the request fails *)
ExtractionFailedRetries(p) ==
    /\ pc' = [pc EXCEPT ![p] = "llm"]
    /\ fail' = [fail EXCEPT ![p] = "llm"]
ExtractionFailed(p) ==
    /\ pc' = [pc EXCEPT ![p] = "failed"]
    /\ fail' = [fail EXCEPT ![p] = "llm"]

MenuSummaryTrusting(menuData, url, currentDate, dayOfWeek) ==
    Menu(menuData.restaurant_name, menuData.date, menuData.day_of_week,
         menuData.menu_items, TRUE, menuData.source_url)

MenuSummaryForToday(menuData, url, currentDate, dayOfWeek) ==
    Menu(menuData.restaurant_name, now, dayOfWeek, menuData.menu_items, TRUE,
         RemoveHashFromUrl(url))

(* const menuSummary = { ... }: date, day_of_week and source_url are the    *)
(* arguments of extractMenu                                                *)
MenuSummaryOf(menuData, url, currentDate, dayOfWeek) ==
    Menu(menuData.restaurant_name, currentDate, dayOfWeek, menuData.menu_items, TRUE, url)

(* llm.extractMenu, then cache.set and the return of summarizeMenu *)
ExtractMenu(p) ==
    /\ pc[p] = "llm"
    /\ nExtract' = [nExtract EXCEPT ![p] = @ + 1]
    /\ pageContent' = [pageContent EXCEPT ![p] = <<>>]
    /\ menuImages' = [menuImages EXCEPT ![p] = <<>>]
    /\ \E o \in LlmOutcomes :
          IF o[1] = "error"
          THEN /\ ExtractionFailed(p)
               /\ UNCHANGED <<stmts, result, nSet, expect, hist>>
          ELSE LET menuSummary ==
                       MenuSummaryOf(o[2], key[p][1], key[p][2], GetDayOfWeek(key[p][2]))
               IN /\ result' = [result EXCEPT ![p] = Some(menuSummary)]
                  /\ stmts' = stmts \cup {SetStmtOf(key[p][1], key[p][2], menuSummary)}
                  /\ nSet' = [nSet EXCEPT ![p] = @ + 1]
                  /\ hist' = IF schema THEN <<[key |-> key[p], data |-> menuSummary]>>
                             ELSE <<>>
                  /\ expect' = [q \in Procs |->
                                  IF key[q] = key[p] THEN None ELSE expect[q]]
                  /\ pc' = [pc EXCEPT ![p] = "done"]
                  /\ UNCHANGED fail
    /\ UNCHANGED <<io, api, atOpen, now, schema, rows, key, sel, cached, today, target, stat, rend,
                   nStatic, nRendered, calls>>

(* summarizeMenu has returned the menu, or thrown: the request is over *)
Over(p) ==
    /\ pc[p] \in {"done", "failed"}
    /\ pc' = [pc EXCEPT ![p] = "idle"]
    /\ sel' = [sel EXCEPT ![p] = None]
    /\ cached' = [cached EXCEPT ![p] = None]
    /\ expect' = [expect EXCEPT ![p] = None]
    /\ result' = [result EXCEPT ![p] = None]
    /\ today' = [today EXCEPT ![p] = None]
    /\ target' = [target EXCEPT ![p] = None]
    /\ fail' = [fail EXCEPT ![p] = ""]
    /\ stat' = [stat EXCEPT ![p] = ""]
    /\ rend' = [rend EXCEPT ![p] = ""]
    /\ nStatic' = [nStatic EXCEPT ![p] = 0]
    /\ nRendered' = [nRendered EXCEPT ![p] = 0]
    /\ nExtract' = [nExtract EXCEPT ![p] = 0]
    /\ nSet' = [nSet EXCEPT ![p] = 0]
    /\ UNCHANGED <<io, atOpen, now, schema, rows, stmts, key, pageContent, menuImages, hist, calls>>

(* the caller takes the menu, or the error *)
Return(p) == Over(p) /\ UNCHANGED api

Next ==
    \/ \E p \in Procs, u \in Urls, d \in Dates : SummarizeMenu(p, u, d)
    \/ DbStep
    \/ \E p \in Procs : GetCallback(p)
    \/ \E p \in Procs : CacheChecked(p)
    \/ \E p \in Procs : StaticFetch(p)
    \/ \E p \in Procs : RenderedFetchTry(p)
    \/ \E p \in Procs : RenderedFetchCatch(p)
    \/ \E p \in Procs : ExtractMenu(p)
    \/ \E p \in Procs : Return(p)
    \/ Tick

Spec == Init /\ [][Next]_vars

(* the requests that give no date *)
NextToday ==
    \/ \E p \in Procs, u \in Urls : SummarizeMenuToday(p, u)
    \/ DbStep
    \/ \E p \in Procs : GetCallback(p)
    \/ \E p \in Procs : CacheChecked(p)
    \/ \E p \in Procs : StaticFetch(p)
    \/ \E p \in Procs : RenderedFetchTry(p)
    \/ \E p \in Procs : RenderedFetchCatch(p)
    \/ \E p \in Procs : ExtractMenu(p)
    \/ \E p \in Procs : Return(p)
    \/ Tick

SpecToday == Init /\ [][NextToday]_vars

(* ========================= the pipeline: claims ======================== *)
Untouched(p) == nStatic[p] = 0 /\ nRendered[p] = 0 /\ nExtract[p] = 0 /\ nSet[p] = 0

Resolved(p) == pc[p] \notin {"idle", "cacheGet", "cacheCb"}
Finished(p) == pc[p] \in {"llm", "done", "failed"}

(* C5: the lookup comes before any fetch, and a request whose lookup found  *)
(* an entry returns that entry without a static or rendered fetch, without *)
(* calling the model and without writing to the cache.                     *)
C5_HitShortCircuits ==
    \A p \in Procs :
        /\ pc[p] \in {"cacheGet", "cacheCb", "gotCache"} => Untouched(p)
        /\ cached[p] # None =>
              /\ pc[p] \in {"gotCache", "done"}
              /\ Untouched(p)
              /\ pc[p] = "done" => result[p] = cached[p]

(* a request returned the entry its lookup found *)
C5_Witness ==
    \E p \in Procs :
        pc[p] = "done" /\ cached[p] # None /\ result[p] = cached[p] /\ Untouched(p)

(* C6: a request for a key made after a request for that key has returned   *)
(* the menu it built finds, while the entry is unexpired, that menu in the *)
(* cache: it returns the identical menu with no fetch and no model call.   *)
C6_SecondResolveHits ==
    \A p \in Procs :
        (Resolved(p) /\ expect[p] # None /\ now < GetExpirationTimestamp(key[p][2]))
        => /\ cached[p] = expect[p]
           /\ Untouched(p)
           /\ pc[p] = "done" => result[p] = expect[p]

(* C7: when the static fetch succeeds and its extraction is menu-like, the  *)
(* rendered fetcher is never called and the static text and images are the *)
(* scrape.                                                                 *)
C7_StaticAccepted ==
    \A p \in Procs :
        stat[p] = "menu" =>
            /\ Finished(p)
            /\ nStatic[p] = 1
            /\ nRendered[p] = 0
            /\ pc[p] = "llm" =>
                  /\ HasMenuContent(pageContent[p], menuImages[p])
                  /\ \E h \in StaticPages :
                        Extracted(h, key[p][1]) = <<"ok", pageContent[p], menuImages[p]>>

(* the menu-like static text is on its way to the model, nothing rendered *)
C7_Witness ==
    \E p \in Procs :
        /\ stat[p] = "menu"
        /\ pc[p] = "llm"
        /\ nRendered[p] = 0
        /\ pageContent[p] = <<"S", "o", "u", "p">>

(* C8: when the static fetch succeeds and its extraction is not menu-like,  *)
(* the rendered fetcher has been called exactly once by the time the       *)
(* scrape ends.                                                            *)
C8_RenderedOnceWhenPlain ==
    \A p \in Procs :
        (stat[p] = "plain" /\ Finished(p)) => nRendered[p] = 1

(* C9: the rendered fetcher is called at most once per request. *)
C9_RenderedAtMostOnce == \A p \in Procs : nRendered[p] <= 1

ScrapeFailed(p) == pc[p] = "failed" /\ fail[p] \notin {"empty", "llm"}
(* a call of the rendered fetcher raised during the request *)
RenderedRaised(p) == rend[p] = "error" \/ fail[p] = "puppeteer"

(* C11: the scraper fails only in a request in which the rendered fetcher   *)
(* was called and raised; a static error alone never fails the request.    *)
C11_FailedOnlyAfterRenderedError ==
    \A p \in Procs :
        ScrapeFailed(p) => (nRendered[p] >= 1 /\ RenderedRaised(p))

(* C12: a request for a URL with a fragment and one for the URL without it  *)
(* share the cache entry: a lookup that finds no row leaves no row behind  *)
(* whose URL differs from the requested one in the fragment alone; and no  *)
(* fetcher is handed a URL with a fragment.                                *)
SameResource(r, k) ==
    RemoveHashFromUrl(r.url) = RemoveHashFromUrl(k[1]) /\ r.date = k[2]

C12_FragmentSharesEntry ==
    [][/\ \A p \in Procs :
             (pc[p] = "cacheGet" /\ pc'[p] = "cacheCb" /\ sel'[p][1] = "none")
             => \A r \in rows : ~SameResource(r, key[p])
       /\ \A p \in Procs : target'[p] # None => target'[p][1].hash = ""]_vars

(* C13: a scrape whose text is empty or blank ends the request with the     *)
(* empty-content error: the model is never called with such a text, and a  *)
(* request that failed this way has made no model call and no cache.set.   *)
C13_EmptyContent ==
    \A p \in Procs :
        /\ pc[p] = "llm" => Trim(pageContent[p]) # <<>>
        /\ fail[p] = "empty" =>
              /\ pc[p] = "failed"
              /\ nExtract[p] = 0
              /\ nSet[p] = 0
              /\ result[p] = None

(* the rendered page was accepted with no text and the request failed *)
C13_Witness ==
    \E p \in Procs :
        /\ pc[p] = "failed"
        /\ fail[p] = "empty"
        /\ rend[p] = "ok"
        /\ nExtract[p] = 0

(* C14: the model is called at most once per request, and once it has       *)
(* failed the request is failed: no cache.set was made, and no fetch and   *)
(* no further model call follows.                                          *)
C14_ExtractionFailureIsFinal ==
    [][\A p \in Procs :
          /\ nExtract'[p] <= 1
          /\ fail[p] = "llm" =>
                /\ pc[p] = "failed"
                /\ nExtract[p] = 1
                /\ nSet[p] = 0
                /\ pc'[p] \in {"failed", "idle"}
                /\ nStatic'[p] <= nStatic[p]
                /\ nRendered'[p] <= nRendered[p]
                /\ nExtract'[p] <= nExtract[p]
                /\ nSet'[p] = 0]_vars

(* the one model call of a request failed *)
C14_Witness ==
    \E p \in Procs :
        pc[p] = "failed" /\ fail[p] = "llm" /\ nExtract[p] = 1 /\ result[p] = None

(* C15: a statement that fails (the table is not there) never fails a       *)
(* request: a failed SELECT resolves the lookup to absent and the request  *)
(* goes on to fetch; a failed INSERT, DELETE or sweep changes no request's *)
(* position, error or result, and no row.                                  *)
FailedRead(p) == sel[p] # None /\ sel[p][1] = "err"

C15_StoreFailureTolerated ==
    [][/\ \A p \in Procs :
             /\ (FailedRead(p) /\ pc[p] = "cacheCb" /\ pc'[p] # pc[p])
                => (pc'[p] = "gotCache" /\ cached'[p] = None)
             /\ (FailedRead(p) /\ pc[p] = "gotCache" /\ pc'[p] # pc[p])
                => (pc'[p] = "static" /\ fail'[p] = "")
       /\ \A s \in stmts :
             (~schema /\ Kind(s) \in {"INSERT", "DELETE", "SWEEP"} /\ Executed(s))
             => (pc' = pc /\ fail' = fail /\ result' = result /\ rows' = rows)]_vars

(* the lookup failed, the request still returned its menu, and the write   *)
(* of that menu failed as well                                             *)
C15_Witness ==
    \E p \in Procs :
        /\ FailedRead(p)
        /\ pc[p] = "done"
        /\ result[p] # None
        /\ ~schema
        /\ rows = {}
        /\ \A s \in stmts : Kind(s) # "INSERT"

(* C16: once a get that found an expired row has resolved to absent, and no *)
(* set has been issued since, the store holds no row for the key.          *)
C16_ExpiredRowDeletedByRead ==
    \A p \in Procs :
        (pc[p] = "gotCache" /\ sel[p][1] = "row" /\ cached[p] = None /\ hist = <<>>)
        => RowsOf(rows, key[p][1], key[p][2]) = {}

(* C17: an executed sweep removes every row whose expires_at is before the  *)
(* sweep's time and leaves every row whose expires_at is after it as it    *)
(* is; what get returns for any key is the same before and after.          *)
C17_SweepRemovesExpiredOnly ==
    [][\A s \in stmts :
          (Kind(s) = "SWEEP" /\ Executed(s) /\ schema) =>
              /\ rows' \subseteq rows
              /\ \A r \in rows :
                    /\ r.expires_at < s[2] => r \notin rows'
                    /\ r.expires_at > s[2] => r \in rows'
              /\ \A k \in Keys :
                    GetResolves(SelectFrom(schema, rows, k[1], k[2]), now) # None
                    => GetResolves(SelectFrom(schema', rows', k[1], k[2]), now')
                         = GetResolves(SelectFrom(schema, rows, k[1], k[2]), now)]_vars

(* of the rows the file held when it was opened, the sweep of that opening  *)
(* removed the expired one and kept the other                              *)
C17_Witness ==
    /\ stmts = {}
    /\ \E r \in atOpen : r \notin rows /\ r.expires_at < now
    /\ \E r \in atOpen : r \in rows /\ r.expires_at >= now

(* C18: the expires_at of every row, and of every write under way, is the   *)
(* midnight that follows the row's date, whenever the write was made.      *)
C18_ExpiryFromDateOnly ==
    /\ \A r \in rows : r.expires_at = r.date + 1
    /\ \A s \in stmts : Kind(s) = "INSERT" => s[6] = s[3] + 1

(* a key was written at one time and is being written again at another *)
C18_Witness ==
    \E r \in rows, s \in stmts :
        /\ Kind(s) = "INSERT"
        /\ s[2] = r.url /\ s[3] = r.date
        /\ s[5] # r.created_at
        /\ s[6] = r.expires_at

(* C19: opening the file again, with the schema statement and the sweep it  *)
(* issues, keeps what get returns for every key with an unexpired row.     *)
Reopening == stmts = {} /\ CreateStmt \in stmts'

C19_RestartPreservesRows ==
    [][(\/ Reopening
        \/ Executed(CreateStmt)
        \/ \E s \in stmts : Kind(s) = "SWEEP" /\ Executed(s))
       => \A k \in Keys :
             GetResolves(SelectFrom(schema, rows, k[1], k[2]), now) # None
             => GetResolves(SelectFrom(schema', rows', k[1], k[2]), now')
                  = GetResolves(SelectFrom(schema, rows, k[1], k[2]), now)]_vars

(* a get made after the file was opened again returned a menu the file held *)
C19_Witness ==
    \E p \in Procs :
        /\ pc[p] = "gotCache"
        /\ cached[p] # None
        /\ \E r \in atOpen :
              /\ r \in rows
              /\ r.url = key[p][1] /\ r.date = key[p][2]
              /\ JsonParse(r.data) = cached[p][1]

(* C20: a request that gives no date uses the local calendar date of the    *)
(* moment of the call.                                                     *)
C20_DefaultDateIsLocal ==
    \A p \in Procs : today[p] # None => key[p][2] = today[p][1]

(* ============================ the fetchers ============================= *)
(* The two fetchers of ScraperService as a unit, under any caller.  A call *)
(* stands at the await it has reached; what the awaited operation does is  *)
(* chosen when the step is taken.                                          *)
FetchSlot(p) == fpc[p] = "idle" /\ \A q \in Procs : fpc[q] = "idle" => p <= q

fetchRest == <<now, schema, rows, atOpen, stmts, pc, key, sel, cached, pipe, expect, hist, api, doc, out, arg, ret>>

(* ------------------- fetchPageContentWithPuppeteer --------------------- *)
CookieSelectors ==
    <<"button:has-text(Prijmout)", "button:has-text(Accept)", "button:has-text(Souhlasim)",
      "[id*=cookie] button", "[class*=cookie] button",
      "[id*=consent] button", "[class*=consent] button">>

(* the awaits of the try block that no inner try guards, in order, and the *)
(* await each is followed by                                               *)
After(step) ==
    CASE step = "launch" -> "newPage"
      [] step = "newPage" -> "setUserAgent"
      [] step = "setUserAgent" -> "goto"
      [] step = "goto" -> "cookies"
      [] step = "scrollDown" -> "pause1"
      [] step = "pause1" -> "scrollUp"
      [] step = "scrollUp" -> "pause2"
      [] step = "pause2" -> "menuLink"
      [] step = "pause3" -> "content"

Unguarded == {"launch", "newPage", "setUserAgent", "goto",
              "scrollDown", "pause1", "scrollUp", "pause2", "pause3"}

FetchPageContentWithPuppeteer(p, u) ==
    /\ FetchSlot(p)
    /\ calls < MaxCalls
    /\ calls' = calls + 1
    /\ fpc' = [fpc EXCEPT ![p] = "launch"]
    /\ browser' = [browser EXCEPT ![p] = "undefined"]
    /\ cookieIx' = [cookieIx EXCEPT ![p] = 0]
    /\ slipped' = [slipped EXCEPT ![p] = {}]
    /\ fres' = [fres EXCEPT ![p] = None]
    /\ UNCHANGED <<gets, reply, fetchRest>>

(* an await of the try block rejects: control passes to catch (error) *)
Raise(p, step) ==
    /\ fpc' = [fpc EXCEPT ![p] = "catch"]
    /\ fres' = [fres EXCEPT ![p] = <<"raised", step>>]

(* puppeteer.launch resolves to the instance, which is assigned to browser, *)
(* or rejects and leaves browser unassigned                                *)
Launch(p) ==
    /\ fpc[p] = "launch"
    /\ \E ok \in BOOLEAN :
          IF ok
          THEN /\ browser' = [browser EXCEPT ![p] = "open"]
               /\ fpc' = [fpc EXCEPT ![p] = After("launch")]
               /\ UNCHANGED fres
          ELSE /\ Raise(p, "launch")
               /\ UNCHANGED browser
    /\ UNCHANGED <<cookieIx, slipped, gets, reply, calls, fetchRest>>

(* newPage, setUserAgent, goto, the two scrolls and the three pauses *)
UnguardedStep(p) ==
    /\ fpc[p] \in Unguarded \ {"launch"}
    /\ \E ok \in BOOLEAN :
          IF ok
          THEN /\ fpc' = [fpc EXCEPT ![p] = After(fpc[p])]
               /\ UNCHANGED fres
          ELSE Raise(p, fpc[p])
    /\ cookieIx' = [cookieIx EXCEPT ![p] = IF fpc'[p] = "cookies" THEN 1 ELSE @]
    /\ UNCHANGED <<browser, slipped, gets, reply, calls, fetchRest>>

(* one turn of the loop over cookieSelectors: waitForSelector and click in *)
(* a try whose catch is empty                                              *)
CookieBanner(p) ==
    /\ fpc[p] = "cookies"
    /\ \E ok \in BOOLEAN :
          slipped' = [slipped EXCEPT ![p] = IF ok THEN @ ELSE @ \cup {"cookies"}]
    /\ IF cookieIx[p] < Len(CookieSelectors)
       THEN /\ cookieIx' = [cookieIx EXCEPT ![p] = @ + 1]
            /\ UNCHANGED fpc
       ELSE /\ cookieIx' = [cookieIx EXCEPT ![p] = 0]
            /\ fpc' = [fpc EXCEPT ![p] = "scrollDown"]
    /\ UNCHANGED <<browser, gets, reply, fres, calls, fetchRest>>

(* page.$, and the click and the pause when a link was found, in a try      *)
(* whose catch is empty                                                    *)
MenuLink(p) ==
    /\ fpc[p] = "menuLink"
    /\ \E ok \in BOOLEAN :
          slipped' = [slipped EXCEPT ![p] = IF ok THEN @ ELSE @ \cup {"menuLink"}]
    /\ fpc' = [fpc EXCEPT ![p] = "pause3"]
    /\ UNCHANGED <<browser, cookieIx, gets, reply, fres, calls, fetchRest>>

(* const html = await page.content() *)
Content(p) ==
    /\ fpc[p] = "content"
    /\ \E o \in RenderedOutcomes :
          IF o[1] = "ok"
          THEN /\ fpc' = [fpc EXCEPT ![p] = "close"]
               /\ fres' = [fres EXCEPT ![p] = <<"html", o[2]>>]
          ELSE Raise(p, "content")
    /\ UNCHANGED <<browser, cookieIx, slipped, gets, reply, calls, fetchRest>>

(* browser.close() ends the instance *)
Closed(b) == IF b = "open" THEN "closed" ELSE b

(* await browser.close(); return html *)
CloseAndReturn(p) ==
    /\ fpc[p] = "close"
    /\ browser' = [browser EXCEPT ![p] = Closed(@)]
    /\ fpc' = [fpc EXCEPT ![p] = "returned"]
    /\ fres' = [fres EXCEPT ![p] = <<"ok", fres[p][2]>>]
    /\ UNCHANGED <<cookieIx, slipped, gets, reply, calls, fetchRest>>

CatchKeepsBrowser(b) == b

(* if (browser) { await browser.close(); } *)
CloseIfLaunched(b) == IF b # "undefined" THEN Closed(b) ELSE b

(* catch (error): the close, then throw new Error(...) *)
CatchAndThrow(p) ==
    /\ fpc[p] = "catch"
    /\ browser' = [browser EXCEPT ![p] = CloseIfLaunched(@)]
    /\ fpc' = [fpc EXCEPT ![p] = "threw"]
    /\ fres' = [fres EXCEPT ![p] = <<"error", "puppeteer", fres[p][2]>>]
    /\ UNCHANGED <<cookieIx, slipped, gets, reply, calls, fetchRest>>

(* the caller takes what the call returned or raised *)
FetchDone(p) ==
    /\ fpc[p] \in {"returned", "threw"}
    /\ fpc' = [fpc EXCEPT ![p] = "idle"]
    /\ browser' = [browser EXCEPT ![p] = "undefined"]
    /\ slipped' = [slipped EXCEPT ![p] = {}]
    /\ gets' = [gets EXCEPT ![p] = <<>>]
    /\ reply' = [reply EXCEPT ![p] = None]
    /\ fres' = [fres EXCEPT ![p] = None]
    /\ UNCHANGED <<cookieIx, calls, fetchRest>>

(* --------------------------- fetchPageContent -------------------------- *)
(* what axios.get settles with: a response (the default validateStatus      *)
(* resolves 2xx only), or an error; status is 0 where there is no response *)
Settled(kind, axiosError, code, st, request, data) ==
    [kind |-> kind, isAxiosError |-> axiosError, code |-> code, status |-> st,
     request |-> request, data |-> data]

AxiosOutcomes ==
    {Settled("resolved", FALSE, "", st, TRUE, PlainPage) : st \in {200, 204}}
    \cup {Settled("rejected", TRUE, "ECONNABORTED", 0, TRUE, <<>>),
          Settled("rejected", TRUE, "ERR_BAD_REQUEST", 404, TRUE, <<>>),
          Settled("rejected", TRUE, "ERR_BAD_RESPONSE", 500, TRUE, <<>>),
          Settled("rejected", TRUE, "ENOTFOUND", 0, TRUE, <<>>),
          Settled("rejected", TRUE, "ERR_INVALID_URL", 0, FALSE, <<>>),
          Settled("rejected", FALSE, "", 0, FALSE, <<>>)}

(* the catch block of fetchPageContent: the error it throws for the one it caught *)
Classify(e) ==
    IF e.isAxiosError /\ e.code = "ECONNABORTED" THEN <<"error", "timeout", 0>>
    ELSE IF e.isAxiosError /\ e.status # 0 THEN <<"error", "http", e.status>>
    ELSE IF e.isAxiosError /\ e.request THEN <<"error", "network", 0>>
    ELSE <<"error", "other", 0>>

(* if (response.status !== 200) throw ...; return response.data: the throw  *)
(* is inside the try and is caught by the catch block as a plain Error     *)
OnResponse(o) ==
    IF o.status # 200
    THEN Classify(Settled("rejected", FALSE, "", 0, FALSE, <<>>))
    ELSE <<"ok", o.data>>

ResultOf(o) == IF o.kind = "resolved" THEN OnResponse(o) ELSE Classify(o)

IssueGetTwice(g, u) == Append(Append(g, RemoveHashFromUrl(u)), RemoveHashFromUrl(u))

(* axios.get(cleanUrl, ...), called once *)
IssueGet(g, u) == Append(g, RemoveHashFromUrl(u))

(* fetchPageContent(url) up to the awaited axios.get(cleanUrl, ...) *)
FetchPageContent(p, u) ==
    /\ FetchSlot(p)
    /\ calls < MaxCalls
    /\ calls' = calls + 1
    /\ fpc' = [fpc EXCEPT ![p] = "axios"]
    /\ gets' = [gets EXCEPT ![p] = IssueGet(@, u)]
    /\ reply' = [reply EXCEPT ![p] = None]
    /\ fres' = [fres EXCEPT ![p] = None]
    /\ UNCHANGED <<browser, cookieIx, slipped, fetchRest>>

(* axios.get settles; the call returns response.data or throws *)
AxiosSettles(p) ==
    /\ fpc[p] = "axios"
    /\ \E o \in AxiosOutcomes :
          /\ reply' = [reply EXCEPT ![p] = Some(o)]
          /\ fres' = [fres EXCEPT ![p] = ResultOf(o)]
          /\ fpc' = [fpc EXCEPT ![p] = IF ResultOf(o)[1] = "ok" THEN "returned" ELSE "threw"]
    /\ UNCHANGED <<browser, cookieIx, slipped, gets, calls, fetchRest>>

NextFetch ==
    \/ \E p \in Procs, u \in Urls : FetchPageContentWithPuppeteer(p, u)
    \/ \E p \in Procs : Launch(p)
    \/ \E p \in Procs : UnguardedStep(p)
    \/ \E p \in Procs : CookieBanner(p)
    \/ \E p \in Procs : MenuLink(p)
    \/ \E p \in Procs : Content(p)
    \/ \E p \in Procs : CloseAndReturn(p)
    \/ \E p \in Procs : CatchAndThrow(p)
    \/ \E p \in Procs, u \in Urls : FetchPageContent(p, u)
    \/ \E p \in Procs : AxiosSettles(p)
    \/ \E p \in Procs : FetchDone(p)

SpecFetch == Init /\ [][NextFetch]_vars

(* ========================= the fetchers: claims ======================== *)
Ended(p) == fpc[p] \in {"returned", "threw"}

FatalSteps == {"launch", "newPage", "setUserAgent", "goto", "content"}

C22_BestEffortNeverFatal ==
    \A p \in Procs :
        (fpc[p] = "threw" /\ fres[p][2] = "puppeteer") => fres[p][3] \in FatalSteps

(* C23: a static fetch whose GET was answered with a 2xx status returns the *)
(* markup of the response; otherwise it throws Timeout when the GET ran    *)
(* out of time, HTTPError with the status when the answer was not 2xx,     *)
(* NetworkError when a request was made and no answer came, and Other in   *)
(* every other case.                                                       *)
IsSuccessStatus(st) == st >= 200 /\ st < 300

C23_StaticClassification ==
    \A p \in Procs :
        (Ended(p) /\ reply[p] # None) =>
            LET o == reply[p][1]
            IN IF o.kind = "resolved" /\ IsSuccessStatus(o.status)
               THEN fres[p][1] = "ok" /\ fres[p][2] = o.data
               ELSE /\ fres[p][1] = "error"
                    /\ fres[p][2] =
                         IF o.code = "ECONNABORTED" THEN "timeout"
                         ELSE IF o.status # 0 THEN "http"
                         ELSE IF o.request THEN "network"
                         ELSE "other"
                    /\ fres[p][2] = "http" => fres[p][3] = o.status

(* C24: a call of the static fetcher makes one GET: one has been made while *)
(* the call waits for it and when the call has ended, whatever the         *)
(* outcome; the call never goes back to make another; and the step that    *)
(* ends the call changes nothing but the call's own result.                *)
StaticCall(p) == fpc[p] = "axios" \/ (Ended(p) /\ reply[p] # None)

C24_OneGetPerCall ==
    [][\A p \in Procs :
          StaticCall(p) =>
              /\ Len(gets[p]) = 1
              /\ fpc[p] = "axios" => gets'[p] = gets[p]
              /\ Ended(p) => fpc'[p] \in {fpc[p], "idle"}
              /\ (fpc[p] = "axios" /\ fpc'[p] # "axios") =>
                    /\ Ended(p)'
                    /\ UNCHANGED <<browser, fetchRest>>]_vars

(* a GET that ran out of time was not made again *)
C24_Witness ==
    \E p \in Procs :
        /\ fpc[p] = "threw"
        /\ reply[p] # None
        /\ fres[p][2] = "timeout"
        /\ Len(gets[p]) = 1

(* ======================== POST /summarize ============================== *)
(* The members url and date of a request body: the JavaScript type of the  *)
(* value, whether it is truthy, and what the checks of the handler make of *)
(* it.                                                                     *)
UrlArg(type, truthy, parses, u) == [type |-> type, truthy |-> truthy, parses |-> parses, url |-> u]
DateArg(type, truthy, format, day) == [type |-> type, truthy |-> truthy, format |-> format, day |-> day]

UrlArgs ==
    {UrlArg("undefined", FALSE, FALSE, Url("a", "")),       \* no url member
     UrlArg("number", TRUE, FALSE, Url("a", "")),           \* 42
     UrlArg("string", TRUE, FALSE, Url("a", ""))}           \* 'not-a-valid-url'
    \cup {UrlArg("string", TRUE, TRUE, Url("a", ""))}       \* 'https://example.com/menu'

DateArgs ==
    {DateArg("undefined", FALSE, FALSE, NaN),               \* no date member
     DateArg("string", TRUE, FALSE, NaN),                   \* '22-10-2025'
     DateArg("string", TRUE, TRUE, NaN),                    \* '9999-99-99'
     DateArg("boolean", FALSE, FALSE, NaN)}                 \* false
    \cup {DateArg("string", TRUE, TRUE, d) : d \in Dates}

Bodies == [url : UrlArgs, date : DateArgs]

(* the checks of the handler, in their order: TRUE when none of them answers 400 *)
Validate(b) ==
    /\ ~(~b.url.truthy \/ b.url.type # "string")
    /\ b.url.parses
    /\ (b.date.truthy /\ b.date.type = "string") => b.date.format

(* const targetDate = date || this.getCurrentDate() *)
TargetDate(date, t, h, off) == IF date.truthy THEN date.day ELSE GetCurrentDate(t, h, off)

(* the handler on a request: 400, or summarizeMenu(url, date) up to the     *)
(* awaited cache.get                                                       *)
Post(p, b) ==
    /\ FreeSlot(p)
    /\ body' = [body EXCEPT ![p] = Some(b)]
    /\ IF ~Validate(b)
       THEN /\ calls < MaxCalls
            /\ calls' = calls + 1
            /\ status' = [status EXCEPT ![p] = 400]
            /\ UNCHANGED <<io, now, schema, rows, atOpen, stmts, pc, key, sel, cached, pipe,
                           expect, hist>>
       ELSE /\ status' = [status EXCEPT ![p] = 0]
            /\ \E h \in Hours, off \in Offsets :
                  /\ TargetDate(b.date, now, h, off) \in Dates \cup {NaN}
                  /\ Call(p, b.url.url, TargetDate(b.date, now, h, off),
                          IF b.date.truthy THEN None ELSE Some(now))

(* The message of the error summarizeMenu threw, as far as the handler      *)
(* looks at it: the set of the texts it searches for that the message      *)
(* contains.  Texts are what a text that comes from outside (the reason    *)
(* phrase of a response, the message of an API error, the message of a     *)
(* browser error) may contain.                                             *)
Texts == {{}, {"404"}, {"timeout"}, {"OpenAI API"}}

(* the messages built in fetchPageContent, fetchPageContentWithPuppeteer,   *)
(* scrapeMenuPageWithImages, summarizeMenu and extractMenu                 *)
MessageOf(class, st, apiError, t) ==
    CASE class = "timeout" -> {"timeout"}
      [] class = "http" -> (IF st = 404 THEN {"HTTP 404", "404"} ELSE {}) \cup t
      [] class = "network" -> {"Network error"}
      [] class = "other" -> t
      [] class = "puppeteer" -> t
      [] class = "empty" -> {}
      [] class = "llm" -> IF apiError THEN {"OpenAI API"} \cup t ELSE t

(* the catch block of the handler *)
StatusOf(message) ==
    IF "timeout" \in message \/ "Network error" \in message THEN 504
    ELSE IF "HTTP 404" \in message \/ "404" \in message THEN 404
    ELSE IF "OpenAI API" \in message THEN 502
    ELSE 500

(* summarizeMenu returned or threw: the handler answers *)
Respond(p) ==
    /\ Over(p)
    /\ body' = [body EXCEPT ![p] = None]
    /\ IF pc[p] = "done"
       THEN status' = [status EXCEPT ![p] = 200]
       ELSE \E t \in Texts, st \in {404, 500}, apiError \in BOOLEAN :
               status' = [status EXCEPT ![p] = StatusOf(MessageOf(fail[p], st, apiError, t))]

NextApi ==
    \/ \E p \in Procs, b \in Bodies : Post(p, b)
    \/ DbStep
    \/ \E p \in Procs : GetCallback(p)
    \/ \E p \in Procs : CacheChecked(p)
    \/ \E p \in Procs : StaticFetch(p)
    \/ \E p \in Procs : RenderedFetchTry(p)
    \/ \E p \in Procs : RenderedFetchCatch(p)
    \/ \E p \in Procs : ExtractMenu(p)
    \/ \E p \in Procs : Respond(p)
    \/ Tick

SpecApi == Init /\ [][NextApi]_vars

(* ======================== the handler: claims ========================== *)
(* C25: a request whose url is missing, is no string or does not parse, or *)
(* whose date is no string or is a string that is no calendar date in the  *)
(* form YYYY-MM-DD, is answered 400 and never gets as far as a cache       *)
(* lookup, a fetch or a model call.                                        *)
UsableUrl(u) == u.type = "string" /\ u.parses
UsableDate(d) == d.type = "undefined" \/ (d.type = "string" /\ d.format /\ d.day # NaN)
Unusable(b) == ~UsableUrl(b.url) \/ ~UsableDate(b.date)

C25_InvalidInputRejected ==
    \A p \in Procs :
        (body[p] # None /\ Unusable(body[p][1])) =>
            /\ status[p] = 400
            /\ pc[p] = "idle"
            /\ Untouched(p)

(* C26: the status of the answer tells a fetch failure from an extraction  *)
(* failure: a request that failed in the model call is not answered 504 or *)
(* 404, and a request that failed in the scraper is not answered 502.      *)
C26_FailureKindsDistinguished ==
    [][\A p \in Procs :
          (pc[p] = "failed" /\ pc'[p] = "idle") =>
              /\ fail[p] = "llm" => status'[p] \notin {504, 404}
              /\ ScrapeFailed(p) => status'[p] # 502]_vars

(* ====================== the store under concurrency ==================== *)
(* C27: whatever the order in which the statements of concurrent gets,     *)
(* sets and sweeps execute, there is at most one row per key; a row that   *)
(* appears is, member for member, the row of one set on that key; a SELECT *)
(* hands get the data of the row of its key; and a get that resolves to a  *)
(* menu resolves to the whole menu of one set.                            *)
C27_PerKeyAtomicity ==
    [][/\ OneRowPerKey /\ OneRowPerKey'
       /\ \A r \in rows' \ rows :
             \E s \in stmts, m \in Menus :
                 /\ Kind(s) = "INSERT" /\ Executed(s)
                 /\ r = Row(s[2], s[3], s[4], s[5], s[6])
                 /\ s[4] = JsonStringify(m)
       /\ \A p \in Procs :
             (pc[p] = "cacheGet" /\ pc'[p] = "cacheCb" /\ sel'[p][1] = "row") =>
                 \E r \in RowsOf(rows, key[p][1], key[p][2]) : sel'[p][2] = r.data
       /\ \A p \in Procs :
             (pc[p] = "cacheCb" /\ pc'[p] = "gotCache" /\ cached'[p] # None) =>
                 \E m \in Menus : cached'[p] = Some(m) /\ sel[p][2] = JsonStringify(m)]_vars

(* two sets of different menus on one key were issued one after the other   *)
(* and executed in the opposite order: the one row is the first menu       *)
C27_Witness ==
    /\ Len(hist) = 2
    /\ hist[1].data # hist[2].data
    /\ stmts = {}
    /\ \E r \in rows :
          /\ RowsOf(rows, hist[1].key[1], hist[1].key[2]) = {r}
          /\ r.data = JsonStringify(hist[1].data)

(* ==================== two requests for one key ========================= *)
(* summarizeMenu has no guard per key: a second call for a key may start   *)
(* while the first is under way.                                           *)
RaceKey == <<Url("a", ""), 1>>

SummarizeMenuRacing(p) ==
    /\ InFlight < MaxRacing
    /\ Start(p, RaceKey[1], RaceKey[2], None)
    /\ UNCHANGED api

NextRace ==
    \/ \E p \in Procs : SummarizeMenuRacing(p)
    \/ DbStep
    \/ \E p \in Procs : GetCallback(p)
    \/ \E p \in Procs : CacheChecked(p)
    \/ \E p \in Procs : StaticFetch(p)
    \/ \E p \in Procs : RenderedFetchTry(p)
    \/ \E p \in Procs : RenderedFetchCatch(p)
    \/ \E p \in Procs : ExtractMenu(p)
    \/ \E p \in Procs : Return(p)
    \/ Tick

SpecRace == Init /\ [][NextRace]_vars

(* both requests missed the cache and each has built its own menu *)
BothBuilt ==
    \A p \in Procs :
        pc[p] = "done" /\ cached[p] = None /\ nExtract[p] = 1 /\ key[p] = RaceKey

(* C28: when two requests for one key, both started while the key was      *)
(* absent, have both returned the menu they built, the cache holds exactly *)
(* one row for the key and its payload is the menu of one of the two.      *)
C28_RaceLeavesOneRow ==
    BothBuilt =>
        \E r \in rows :
            /\ RowsOf(rows, RaceKey[1], RaceKey[2]) = {r}
            /\ \E p \in Procs : r.data = JsonStringify(result[p][1])

(* ========================= extractMenu: claims ========================= *)
(* C29: the menu a request built with the model carries the date, the      *)
(* weekday and the URL that were passed to extractMenu, whatever date,     *)
(* weekday and URL the model's answer names.                               *)
C29_ResultCarriesArguments ==
    \A p \in Procs :
        (pc[p] = "done" /\ nExtract[p] = 1) =>
            /\ result[p][1].date = key[p][2]
            /\ result[p][1].day_of_week = GetDayOfWeek(key[p][2])
            /\ result[p][1].source_url = key[p][1]
            /\ \E a \in LlmAnswers :
                  /\ result[p][1].restaurant_name = a.restaurant_name
                  /\ result[p][1].menu_items = a.menu_items

(* the answer named another date, weekday and URL than the request's *)
C29_Witness ==
    \E p \in Procs, a \in LlmAnswers :
        /\ pc[p] = "done"
        /\ nExtract[p] = 1
        /\ result[p][1].restaurant_name = a.restaurant_name
        /\ a.date # key[p][2]
        /\ a.day_of_week # GetDayOfWeek(key[p][2])
        /\ a.source_url # key[p][1]
        /\ result[p][1].date = key[p][2]

(* ========================= extractTextContent ========================== *)
(* extractTextContent as a function of its argument: the documents are the *)
(* sequences of at most MaxLen of these elements.                          *)
LongText == [i \in 1..(SectionMinLength + 1) |-> "m"] \o <<"\n", "\n">>

TextElements ==
    {Element("script", <<>>, <<>>, <<"x", " ", " ">>),
     Element("style", <<>>, <<>>, <<"y">>),
     Element("noscript", <<>>, <<>>, <<"\n", "z">>),
     Element("p", <<>>, <<>>, <<" ", "a", "\n", "\n", "b", "\t">>),
     Element("div", <<"m", "e", "n", "u">>, <<>>, LongText)}

(* at most one section of that length to a document *)
Documents ==
    {h \in UNION {[1..n -> TextElements] : n \in 0..MaxLen} :
        Cardinality({i \in DOMAIN h : h[i].tag = "div"}) <= 1}

InitText == Idle /\ doc \in Documents /\ out = None /\ arg = <<>> /\ ret = None

ExtractText ==
    /\ out = None
    /\ out' = Some(ExtractTextContent(doc))
    /\ UNCHANGED <<arg, ret, doc, fpc, browser, cookieIx, slipped, gets, reply, fres, now, schema, rows,
                   atOpen, stmts, pc, key, sel, cached, pipe, expect, hist, calls, api>>

NextText == ExtractText

SpecText == InitText /\ [][NextText]_vars

(* the text of the body: of the elements that are no script, style or noscript *)
BodyText(html) ==
    LET kept(e) == e.tag \notin {"script", "style", "noscript"}
    IN TextOf(SelectSeq(html, kept))

(* C30: the text extractTextContent returns holds no character of a script, *)
(* style or noscript element, contains the text of the body (with its      *)
(* whitespace collapsed), and every whitespace in it is a single space     *)
(* between two other characters.                                           *)
C30_ExtractedTextIsClean ==
    out # None =>
        LET t == out[1]
        IN /\ \A i \in 1..Len(t) : t[i] \notin {"x", "y", "z"}
           /\ Includes(t, Trim(CollapseWhitespace(BodyText(doc))))
           /\ \A i \in 1..Len(t) :
                 IsSpace(t[i]) => (t[i] = " " /\ i > 1 /\ i < Len(t) /\ ~IsSpace(t[i - 1]))

(* a document with a script, a noscript, a paragraph with runs of           *)
(* whitespace and a menu section was extracted                             *)
C30_Witness ==
    /\ out # None
    /\ \E i, j, k \in 1..Len(doc) :
          /\ doc[i].tag = "noscript"
          /\ doc[j].tag = "p"
          /\ doc[k].tag = "div"
    /\ Includes(out[1], <<"m", " ", "a", " ", "b">>)

(* ====================== the fetch strategy: claims ===================== *)
(* Every call of a fetcher settles: axios.get is given a timeout, and the   *)
(* awaits of the rendered fetcher are bounded by puppeteer's timeouts; the *)
(* code between two awaits runs to completion.                            *)
ScrapeSettles ==
    \A p \in Procs :
        /\ WF_vars(StaticFetch(p))
        /\ WF_vars(RenderedFetchTry(p))
        /\ WF_vars(RenderedFetchCatch(p))

(* scrapeMenuPageWithImages(url), called as summarizeMenu calls it after a  *)
(* lookup that found nothing                                               *)
ScrapeMenuPageWithImages(p, u) ==
    /\ FreeSlot(p)
    /\ calls < MaxCalls
    /\ calls' = calls + 1
    /\ pc' = [pc EXCEPT ![p] = "static"]
    /\ key' = [key EXCEPT ![p] = <<u, key[p][2]>>]
    /\ UNCHANGED <<io, api, atOpen, now, schema, rows, stmts, sel, cached, pipe, expect, hist>>

(* the caller has the text and the images, or the error *)
ScrapeEnds(p) ==
    /\ pc[p] \in {"llm", "failed"}
    /\ pc' = [pc EXCEPT ![p] = "idle"]
    /\ target' = [target EXCEPT ![p] = None]
    /\ fail' = [fail EXCEPT ![p] = ""]
    /\ stat' = [stat EXCEPT ![p] = ""]
    /\ rend' = [rend EXCEPT ![p] = ""]
    /\ nStatic' = [nStatic EXCEPT ![p] = 0]
    /\ nRendered' = [nRendered EXCEPT ![p] = 0]
    /\ UNCHANGED <<io, api, atOpen, now, schema, rows, stmts, key, sel, cached, pageContent,
                   menuImages, result, today, nExtract, nSet, expect, hist, calls>>

NextScrape ==
    \/ \E p \in Procs, u \in Urls : ScrapeMenuPageWithImages(p, u)
    \/ \E p \in Procs : StaticFetch(p)
    \/ \E p \in Procs : RenderedFetchTry(p)
    \/ \E p \in Procs : RenderedFetchCatch(p)
    \/ \E p \in Procs : ScrapeEnds(p)

SpecScrape == Init /\ [][NextScrape]_vars /\ ScrapeSettles

(* the scrape is over: it returned its text and images, or raised *)
ScrapeOver(p) == pc[p] \in {"llm", "failed"}

Pieces ==
    {<<"S", "o", "u", "p">>, <<"C", "e", "n", "a">>, <<"P", "o", "l", "e'", "v", "k", "a">>,
     <<"M", "e", "n", "u">>, <<"k", "c">>, <<"K">>, <<"c^">>, <<"C^">>, <<"7">>, <<" ">>,
     <<",", "-">>}

TextsOfPieces == {Concat(ps) : ps \in UNION {[1..n -> Pieces] : n \in 0..MaxLen}}

ImageLists == {<<>>, <<AbsoluteUrl(<<"/", "m">>, Url("a", ""))>>}

InitMenuContent ==
    /\ Idle /\ doc = <<>> /\ out = None
    /\ arg \in TextsOfPieces \X ImageLists
    /\ ret = None

ApplyHasMenuContent ==
    /\ ret = None
    /\ Len(arg) = 2
    /\ ret' = Some(HasMenuContent(arg[1], arg[2]))
    /\ UNCHANGED <<arg, doc, out, fpc, browser, cookieIx, slipped, gets, reply, fres, now, schema,
                   rows, atOpen, stmts, pc, key, sel, cached, pipe, expect, hist, calls, api>>

NextMenuContent == ApplyHasMenuContent

SpecMenuContent == InitMenuContent /\ [][NextMenuContent]_vars

(* the markers, lower case *)
CategoryWords == {<<"p", "o", "l", "e'", "v", "k", "a">>, <<"s", "o", "u", "p">>, <<"c", "e", "n", "a">>}
CurrencyMarker == <<"k", "c^">>
PriceCurrencies == {<<"k", "c^">>, <<"k", "c">>, <<",", "-">>}

(* t holds a digit, then whitespace or nothing, then one of the currencies *)
DigitsThenCurrency(t) ==
    \E i \in 1..Len(t) :
        /\ IsDigit(t[i])
        /\ \E j \in (i + 1)..Len(t), c \in PriceCurrencies :
              /\ \A k \in (i + 1)..(j - 1) : IsSpace(t[k])
              /\ j + Len(c) - 1 <= Len(t)
              /\ SubSeq(t, j, j + Len(c) - 1) = c

HasMarker(text) ==
    LET t == ToLowerCase(text)
    IN \/ \E w \in CategoryWords : Includes(t, w)
       \/ Includes(t, CurrencyMarker)
       \/ DigitsThenCurrency(t)

(* C32: hasMenuContent is true exactly when the text holds a marker, in any *)
(* case of letters, or there is an image: true with an image whatever the  *)
(* text, false without marker and image even when the text says "menu".    *)
C32_ClassifierExact ==
    ret # None =>
        /\ ret[1] = (HasMarker(arg[1]) \/ arg[2] # <<>>)
        /\ arg[2] # <<>> => ret[1]
        /\ (Includes(ToLowerCase(arg[1]), <<"m", "e", "n", "u">>)
              /\ ~HasMarker(arg[1]) /\ arg[2] = <<>>) => ~ret[1]

(* a text that says "menu" and holds no marker, with no image, was found    *)
(* not menu-like                                                           *)
C32_Witness ==
    /\ ret = Some(FALSE)
    /\ arg[2] = <<>>
    /\ Includes(arg[1], <<"M", "e", "n", "u">>)
    /\ Includes(arg[1], <<"K">>)

(* ============================ findMenuImages =========================== *)
(* findMenuImages as a function of the markup and the base URL: a document *)
(* is made of at most MaxLen of these elements.                            *)
ImageElements ==
    {Image(<<"/", "m">>, <<>>, <<"M", "e", "n", "u">>, <<>>),
     Image(<<"h", "t", "t", "p", ":", "m", "e", "n", "u">>, <<>>, <<>>, <<>>),
     Image(<<"h", "t", "t", "p", "m", "e", "n", "u">>, <<>>, <<>>, <<>>),
     Image(<<>>, <<"/", "p", "o", "l", "e", "d", "n", "i">>, <<>>, <<>>),
     Image(<<>>, <<>>, <<"m", "e", "n", "u">>, <<>>),
     Image(<<"/", "x">>, <<>>, <<>>, <<"M", "E", "N", "U">>),
     Image(<<"/", "/">>, <<>>, <<"m", "e", "n", "u">>, <<>>),
     Image(<<"/", "x">>, <<>>, <<>>, <<>>),
     Element("p", <<>>, <<>>, <<"m", "e", "n", "u">>)}

ImageDocuments == UNION {[1..n -> ImageElements] : n \in 0..MaxLen}

InitImages ==
    /\ Idle /\ doc = <<>> /\ out = None
    /\ arg \in ImageDocuments \X Urls
    /\ ret = None

ApplyFindMenuImages ==
    /\ ret = None
    /\ Len(arg) = 2
    /\ ret' = Some(FindMenuImages(arg[1], arg[2]))
    /\ UNCHANGED <<arg, doc, out, fpc, browser, cookieIx, slipped, gets, reply, fres, now, schema,
                   rows, atOpen, stmts, pc, key, sel, cached, pipe, expect, hist, calls, api>>

NextImages == ApplyFindMenuImages

SpecImages == InitImages /\ [][NextImages]_vars

(* the source of an image: its src, or its lazy source when it has no src *)
SourceOf(e) == IF e.src # <<>> THEN e.src ELSE e.dataSrc

(* an image with a source, one of whose source, alt and title names a menu *)
Wanted(e) ==
    /\ e.tag = "img"
    /\ SourceOf(e) # <<>>
    /\ \E t \in {ToLowerCase(SourceOf(e)), ToLowerCase(e.alt), ToLowerCase(e.title)} :
          \/ \E i \in 1..Len(MenuKeywords) : Includes(t, MenuKeywords[i])
          \/ t = ToLowerCase(SourceOf(e)) /\ Includes(t, <<"p", "o", "l", "e", "d", "n", "i">>)

(* an entry that names its scheme, or else was resolved against a base URL *)
IsAbsolute(entry) ==
    \/ StartsWith(entry.ref, <<"h", "t", "t", "p", ":">>)
    \/ ~StartsWith(entry.ref, <<"h", "t", "t", "p">>) /\ entry.base \in {u.base : u \in Urls}

(* C33: findMenuImages returns one entry for each wanted image, in document *)
(* order, and every entry is an absolute URL.                              *)
C33_ImagesInOrderAbsolute ==
    ret # None =>
        LET wanted == SelectSeq(arg[1], Wanted)
        IN /\ ret[1][1] = "ok"
           /\ Len(ret[1][2]) = Len(wanted)
           /\ \A i \in 1..Len(wanted) :
                 /\ ret[1][2][i].ref = SourceOf(wanted[i])
                 /\ IsAbsolute(ret[1][2][i])

(* ===================== failures and the cache: claims ================== *)
Issued == stmts' \ stmts

(* C34: a request that fails has made no cache.set; an INSERT is issued     *)
(* only by a request that returns its menu, a DELETE only by a lookup that *)
(* read a row whose expiry has passed, for the key of that lookup; and     *)
(* the rows a DELETE removes have all expired.                             *)
C34_FailureLeavesCache ==
    /\ [](\A p \in Procs : pc[p] = "failed" => nSet[p] = 0)
    /\ [][/\ \A s \in Issued :
               /\ Kind(s) = "INSERT" =>
                     \E p \in Procs :
                        pc[p] = "llm" /\ pc'[p] = "done" /\ <<s[2], s[3]>> = key[p]
               /\ Kind(s) = "DELETE" =>
                     \E p \in Procs :
                        /\ pc[p] = "cacheCb" /\ sel[p][1] = "row" /\ sel[p][3] <= now
                        /\ <<s[2], s[3]>> = key[p]
          /\ \A p \in Procs : (pc[p] # "failed" /\ pc'[p] = "failed") => (rows' = rows /\ Issued = {})
          /\ \A s \in stmts :
                (Kind(s) = "DELETE" /\ Executed(s)) =>
                    \A r \in rows \ rows' : r.expires_at <= now]_vars

(* a request failed after its lookup read an expired row: the row's DELETE  *)
(* is all it issued                                                        *)
C34_Witness ==
    \E p \in Procs :
        /\ pc[p] = "failed"
        /\ sel[p][1] = "row"
        /\ nSet[p] = 0
        /\ DeleteStmt(key[p][1], key[p][2]) \in stmts
        /\ RowsOf(rows, key[p][1], key[p][2]) # {}

(* C35: the DELETE that get issues for an expired row removes expired rows  *)
(* only, whenever it executes: a set on the same key that runs meanwhile   *)
(* writes a row that has itself expired.                                   *)
C35_LazyDeleteRemovesExpiredOnly ==
    [][\A s \in stmts :
          (Kind(s) = "DELETE" /\ Executed(s)) =>
              /\ \A r \in RowsOf(rows, s[2], s[3]) : now >= r.expires_at /\ r \notin rows'
              /\ \A i \in stmts :
                    (Kind(i) = "INSERT" /\ i[2] = s[2] /\ i[3] = s[3]) => now >= i[6]]_vars

(* the DELETE of a lookup and the INSERT of a set on the same key are both  *)
(* waiting to be executed, beside the row the lookup read                  *)
C35_Witness ==
    \E s, i \in stmts :
        /\ Kind(s) = "DELETE"
        /\ Kind(i) = "INSERT"
        /\ i[2] = s[2] /\ i[3] = s[3]
        /\ RowsOf(rows, s[2], s[3]) # {}

(* C36: on a fresh database every statement of a caller executes on the     *)
(* table: CREATE TABLE has executed before it, so that the INSERT of a set *)
(* made right after construction stores its row.                           *)
C36_SchemaBeforeStatements ==
    [][\A s \in stmts :
          (Executed(s) /\ Kind(s) # "CREATE") =>
              /\ schema
              /\ (Kind(s) = "INSERT" /\ NotNull(s[6])) =>
                    Row(s[2], s[3], s[4], s[5], s[6]) \in rows']_vars

(* C37: the payload of every row, and of every INSERT on its way, names the *)
(* date and the URL of the row's key as its date and source_url.           *)
C37_RowPayloadMatchesKey ==
    /\ \A r \in rows :
          /\ Member(r.data, "date") = r.date
          /\ Member(r.data, "source_url") = r.url
    /\ \A s \in stmts :
          Kind(s) = "INSERT" =>
              /\ Member(s[4], "date") = s[3]
              /\ Member(s[4], "source_url") = s[2]

(* a row written for a URL with a fragment and for a date that is not today *)
C37_Witness ==
    \E r \in rows :
        /\ r.url.hash = "f"
        /\ r.date # now
        /\ JsonParse(r.data).source_url = r.url
        /\ JsonParse(r.data).date = r.date

Past(d) == now >= d + 1

(* C39: for a date whose following midnight has passed every lookup misses, *)
(* the request goes on to fetch, and one that returns a menu has fetched,  *)
(* extracted and written a row; that row has expired when it is written,   *)
(* and no get of such a key resolves to a payload, whatever rows there are. *)
C39_PastDateNeverHits ==
    /\ [](/\ \A k \in Keys :
                Past(k[2]) => GetResolves(SelectResult(k[1], k[2]), now) = None
          /\ \A p \in Procs :
                (pc[p] = "done" /\ cached[p] = None) =>
                    (nStatic[p] = 1 /\ nExtract[p] = 1 /\ nSet[p] = 1))
    /\ [][/\ \A p \in Procs :
               /\ (pc[p] = "cacheCb" /\ pc'[p] # "cacheCb" /\ Past(key[p][2])) =>
                     cached'[p] = None
               /\ (pc[p] = "gotCache" /\ pc'[p] # "gotCache" /\ cached[p] = None) =>
                     pc'[p] = "static"
          /\ \A s \in Issued :
                (Kind(s) = "INSERT" /\ Past(s[3])) => now >= s[6]]_vars

(* a request for a past date read the row an earlier request had written,   *)
(* missed, and fetched, extracted and wrote again                          *)
C39_Witness ==
    \E p \in Procs :
        /\ pc[p] = "done"
        /\ Past(key[p][2])
        /\ sel[p][1] = "row"
        /\ cached[p] = None
        /\ nStatic[p] = 1
        /\ nExtract[p] = 1
        /\ nSet[p] = 1
====
